---- MODULE Spec2Model ----
(***************************************************************************)
(* influx-proxy: the per-backend write engine (Backend), its spill log     *)
(* (FileBackend) and the consistent-hash routing of a Circle.              *)
(*                                                                         *)
(* Files are sequences of cells.  A cell of the .dat file is one byte of a *)
(* payload, or the big-endian uint32 length prefix of a record (one cell   *)
(* standing for its four bytes).  Offsets count cells.  The .rec file is   *)
(* empty or holds one cell, the int64 consumer offset.                     *)
(***************************************************************************)
EXTENDS Integers, Sequences, FiniteSets, Bags, TLC

\* ------------------------------------------------------------- bounds
\* The number of FileBackend.Write calls a run of SpecFB makes.
MaxWrites == 3

\* The payloads SpecFB writes: empty, one byte, two bytes.
Payloads == {<<>>, <<1>>, <<2, 1>>}

\* Circle: the backends of a circle, the virtual nodes each gets on the ring (256
\* in the code), the size of the hash space, the routing keys looked up and the
\* concurrent callers of GetBackend.
MaxBackends == 3
NumberOfReplicas == 2
RingSize == 7
MaxKey == 3
Callers == {"c1", "c2"}

\* Backend: the WritePoint calls and Close calls a run makes, the capacity of
\* chWrite (16 in the code), and the configuration the engine was built with.
MaxPoints == 2
MaxFeed == 3
MaxCloses == 2
ChanCap == 2
FlushSize == 2
ConnPoolSize == 1
Writers == {"w1", "w2"}
RwIds == {1, 2}

\* The records of a data directory an earlier run of the proxy left behind.
MaxRecords == 2

\* Bytes: ' ', '\n', '+', and the first byte of a gzip stream.
SP == 32
NL == 10
PLUS == 43
GZ == 31

\* The points callers submit: "a\n" and "b", with no newline, for (d, r), and
\* "a\n" for a database whose name holds a space, ("d ", s).
Points ==
    { [Db |-> <<100>>, Rp |-> <<114>>, Line |-> <<97, NL>>],
      [Db |-> <<100>>, Rp |-> <<114>>, Line |-> <<98>>],
      [Db |-> <<100, SP>>, Rp |-> <<115>>, Line |-> <<97, NL>>] }

VARIABLES
    fb,         \* the FileBackend: .dat and .rec contents, handle positions, dataflag
    pending,    \* ghost: records written and not committed, oldest first: [off, p]
    readOffs,   \* ghost: offsets of the records Read returned since the last commit or rollback
    trail,      \* ghost: the last FileBackend operations (at most three) and their results
    nWrites,    \* ghost: number of Write calls made
    protocolOk, \* ghost: the consumer kept to Rewrite's order of calls: Read, and after a
                \* Read that returned a record one UpdateMeta or one RollbackMeta
    disturbed,  \* ghost: a RollbackMeta or a crash has happened
    justOpened, \* ghost: the last step was NewFileBackend after a crash
    mu,         \* FileBackend.lock: "none", or "w" while a Write holds it
    fw,         \* a goroutine inside FileBackend.Write: where it stands, its p
    fr,         \* the goroutine that reads (Rewrite): where it stands inside Read, its
                \* length, what Read returned; ghost torn: Read took the length of a
                \* record whose body was not written yet
    cfg,          \* the CircleConfig and ProxyConfig.HashKey the circle was built from
    router,       \* Circle.router: ring position -> ring string
    mapToBackend, \* Circle.mapToBackend: ring string -> backend index
    routerCache,  \* Circle.routerCache: routing key -> backend index (sync.Map)
    gb,           \* each GetBackend caller: where it stands, its key, its local be
    returned,     \* ghost: the <<key, backend>> pairs GetBackend has returned
    running,    \* Backend.running
    chWrite,    \* Backend.chWrite: the points queued
    chClosed,   \* chWrite has been closed
    wp,         \* each WritePoint caller: where it stands, its point, how its last call ended
    cl,         \* the caller of Close: where it stands, calls made, calls returned, panicked
    wk,         \* the worker goroutine: where it stands and its locals; the batch it
                \* is about to submit, with (ghost) `was', what the CacheBuffer held
    chTimer,    \* Backend.chTimer: "nil" or "armed" (a time.After channel)
    buffers,    \* Backend.buffers: (db, rp) -> CacheBuffer
    heap,       \* the bytes.Buffer objects the CacheBuffers and the batches point to
    wg,         \* Backend.wg: the in-flight counter
    tasks,      \* the flush tasks the pool holds (a bag): key, the slice p, the
                \* compressed batch z, err, and (ghost) was
    active,     \* HttpBackend.IsActive(), kept by the health check
    rewriting,  \* HttpBackend.IsRewriting()
    rw,         \* the RewriteLoop goroutines
    shut,       \* HttpBackend.Close() and pool.Release() have been called
    tally       \* ghost: points enqueued, points whose batch reached an outcome, the
                \* records the rewrite delivered, and the offsets of the records of
                \* .dat the backend has answered with nil, ErrBadRequest or ErrNotFound

lockVars == <<mu, fw, fr>>

fbVars == <<fb, pending, readOffs, trail, nWrites, protocolOk, disturbed, justOpened,
            lockVars>>

circleVars == <<cfg, router, mapToBackend, routerCache, gb, returned>>

engineVars == <<running, chWrite, chClosed, wp, cl, wk, chTimer, buffers, heap, wg, tasks,
                active, rewriting, rw, shut, tally>>

vars == <<fbVars, circleVars, engineVars>>

\* ------------------------------------------------------ FileBackend
Last(s) == s[Len(s)]

Zeros(n) == [i \in 1..n |-> 0]

\* binary.Write(length) followed by producer.Write(p): one record of the .dat file.
Frame(p) == <<Len(p)>> \o p

\* The offset the .rec file stores; an empty .rec file is a fresh log.
MetaOffset(f) == IF f.rec = <<>> THEN 0 ELSE f.rec[1]

RollbackMetaSeekStart(f) ==
    IF f.closed THEN [fb |-> f, err |-> "ErrClosed"]
    ELSE IF f.rec = <<>> THEN [fb |-> f, err |-> "EOF"]
    ELSE [fb |-> [f EXCEPT !.consumer = 0], err |-> "nil"]

\* RollbackMeta: read the offset from .rec and seek the consumer to it.  An empty
\* .rec gives io.EOF and the function returns before the consumer is moved.
RollbackMeta(f) ==
    IF f.closed THEN [fb |-> f, err |-> "ErrClosed"]
    ELSE IF f.rec = <<>> THEN [fb |-> f, err |-> "EOF"]
    ELSE [fb |-> [f EXCEPT !.consumer = f.rec[1]], err |-> "nil"]

\* NewFileBackend: open the three files, RollbackMeta, seek the producer to the
\* end, dataflag = producerOffset > offset.
NewFileBackend(dat, rec) ==
    LET f0 == [dat |-> dat, rec |-> rec, producer |-> 0, consumer |-> 0,
               dataflag |-> FALSE, closed |-> FALSE]
        f1 == RollbackMeta(f0).fb
        producerOffset == Len(dat)
        offset == f1.consumer
    IN  [f1 EXCEPT !.producer = producerOffset, !.dataflag = producerOffset > offset]

WriteNoFlag(f, p) ==
    IF f.closed THEN [fb |-> f, err |-> "ErrClosed"]
    ELSE [fb |-> [f EXCEPT !.dat = f.dat \o Frame(p),
                           !.producer = Len(f.dat) + Len(p) + 1],
          err |-> "nil"]

\* Write: under the lock, append length and payload (O_APPEND: at the end of the
\* file, the handle's position follows), sync, dataflag = true.
Write(f, p) ==
    IF f.closed THEN [fb |-> f, err |-> "ErrClosed"]
    ELSE [fb |-> [f EXCEPT !.dat = f.dat \o Frame(p),
                           !.producer = Len(f.dat) + Len(p) + 1,
                           !.dataflag = TRUE],
          err |-> "nil"]

IsData(f) == f.dataflag

\* What io.ReadFull leaves in the buffer of `length` bytes when the file ends early.
ShortRead(f, start, length) ==
    SubSeq(f.dat, start + 1, Len(f.dat)) \o Zeros(length - (Len(f.dat) - start))

ReadKeepHeader(f) ==
    IF ~IsData(f) THEN [fb |-> f, p |-> <<>>, isnil |-> TRUE, err |-> "nil"]
    ELSE IF f.closed THEN [fb |-> f, p |-> <<>>, isnil |-> TRUE, err |-> "ErrClosed"]
    ELSE IF f.consumer >= Len(f.dat)
    THEN [fb |-> f, p |-> <<>>, isnil |-> TRUE, err |-> "EOF"]
    ELSE LET length == f.dat[f.consumer + 1]
             start == f.consumer
         IN  IF Len(f.dat) - start >= length
             THEN [fb |-> [f EXCEPT !.consumer = start + length],
                   p |-> SubSeq(f.dat, start + 1, start + length),
                   isnil |-> FALSE, err |-> "nil"]
             ELSE [fb |-> [f EXCEPT !.consumer = Len(f.dat)],
                   p |-> ShortRead(f, start, length), isnil |-> FALSE,
                   err |-> "ErrUnexpectedEOF"]

\* Read: nil when IsData is false; else the length prefix at the consumer's
\* position and then that many bytes.  The consumer's position moves with what
\* was read; nothing is committed.
Read(f) ==
    IF ~IsData(f) THEN [fb |-> f, p |-> <<>>, isnil |-> TRUE, err |-> "nil"]
    ELSE IF f.closed THEN [fb |-> f, p |-> <<>>, isnil |-> TRUE, err |-> "ErrClosed"]
    ELSE IF f.consumer >= Len(f.dat)
    THEN [fb |-> f, p |-> <<>>, isnil |-> TRUE, err |-> "EOF"]
    ELSE LET length == f.dat[f.consumer + 1]
             start == f.consumer + 1
         IN  IF Len(f.dat) - start >= length
             THEN [fb |-> [f EXCEPT !.consumer = start + length],
                   p |-> SubSeq(f.dat, start + 1, start + length),
                   isnil |-> FALSE, err |-> "nil"]
             ELSE [fb |-> [f EXCEPT !.consumer = Len(f.dat)],
                   p |-> ShortRead(f, start, length), isnil |-> FALSE,
                   err |-> IF Len(f.dat) = start /\ length > 0
                           THEN "EOF" ELSE "ErrUnexpectedEOF"]

\* CleanUp: consumer to the start, truncate .dat, reopen the producer, clear dataflag.
CleanUp(f) ==
    [f EXCEPT !.consumer = 0, !.dat = <<>>, !.producer = 0, !.dataflag = FALSE]

\* UpdateMeta: under the lock; CleanUp and offset 0 when the consumer has caught
\* the producer; the offset is written to .rec and synced.
UpdateMetaKeepData(f) ==
    IF f.closed THEN [fb |-> f, err |-> "ErrClosed"]
    ELSE [fb |-> [f EXCEPT !.rec = <<f.consumer>>], err |-> "nil"]

UpdateMeta(f) ==
    IF f.closed THEN [fb |-> f, err |-> "ErrClosed"]
    ELSE LET producerOffset == f.producer
             offset == f.consumer
         IN  IF producerOffset = offset
             THEN [fb |-> [CleanUp(f) EXCEPT !.rec = <<0>>], err |-> "nil"]
             ELSE [fb |-> [f EXCEPT !.rec = <<offset>>], err |-> "nil"]

\* FileBackend.Close: the three handles are closed.
FbClose(f) == [f EXCEPT !.closed = TRUE]

\* --------------------------------- the spill log, statement by statement
\* Read, line 277: binary.Read(fb.consumer, &length).
ReadLength(f) ==
    IF f.consumer >= Len(f.dat) THEN [fb |-> f, length |-> 0, err |-> "EOF"]
    ELSE [fb |-> [f EXCEPT !.consumer = f.consumer + 1],
          length |-> f.dat[f.consumer + 1], err |-> "nil"]

\* Read, lines 282-284: io.ReadFull(fb.consumer, p) for p of `length' bytes.
ReadBody(f, length) ==
    IF Len(f.dat) - f.consumer >= length
    THEN [fb |-> [f EXCEPT !.consumer = f.consumer + length],
          p |-> SubSeq(f.dat, f.consumer + 1, f.consumer + length), err |-> "nil"]
    ELSE [fb |-> [f EXCEPT !.consumer = Len(f.dat)],
          p |-> ShortRead(f, f.consumer, length),
          err |-> IF Len(f.dat) = f.consumer THEN "EOF" ELSE "ErrUnexpectedEOF"]

NotReading == [pc |-> "idle", length |-> 0, p |-> <<>>, err |-> "nil", torn |-> FALSE]

lockFrame == <<pending, readOffs, trail, protocolOk, disturbed, justOpened,
               circleVars, engineVars>>

\* Write, lines 235-239: the lock is taken and the length written.
LkWriteLen(p) ==
    /\ fw.pc = "idle"
    /\ mu = "none"
    /\ nWrites < MaxWrites
    /\ nWrites' = nWrites + 1
    /\ mu' = "w"
    /\ fb' = [fb EXCEPT !.dat = fb.dat \o <<Len(p)>>, !.producer = Len(fb.dat) + 1]
    /\ fw' = [pc |-> "body", p |-> p]
    /\ UNCHANGED <<fr, lockFrame>>

\* Write, line 245: the payload is written.
LkWriteBody ==
    /\ fw.pc = "body"
    /\ fb' = [fb EXCEPT !.dat = fb.dat \o fw.p, !.producer = Len(fb.dat) + Len(fw.p)]
    /\ fw' = [fw EXCEPT !.pc = "flag"]
    /\ UNCHANGED <<mu, fr, nWrites, lockFrame>>

\* Write, lines 254-262: sync, dataflag = true, the lock is released.
LkWriteDone ==
    /\ fw.pc = "flag"
    /\ fb' = [fb EXCEPT !.dataflag = TRUE]
    /\ fw' = [pc |-> "idle", p |-> <<>>]
    /\ mu' = "none"
    /\ UNCHANGED <<fr, nWrites, lockFrame>>

\* Read, lines 272-274: IsData() takes the lock, reads dataflag and releases
\* the lock; Read returns nil when there is no data.
LkReadIsData ==
    /\ fr.pc = "idle"
    /\ mu = "none"
    /\ fr' = IF IsData(fb) THEN [NotReading EXCEPT !.pc = "length"] ELSE NotReading
    /\ UNCHANGED <<fb, mu, fw, nWrites, lockFrame>>

\* Read, lines 277-281, with no lock held.
LkReadLen ==
    /\ fr.pc = "length"
    /\ LET r == ReadLength(fb)
       IN  /\ fb' = r.fb
           /\ fr' = IF r.err = "nil"
                    THEN [fr EXCEPT !.pc = "body", !.length = r.length,
                                    !.torn = (fw.pc = "body"
                                              /\ fb.consumer = Len(fb.dat) - 1)]
                    ELSE [NotReading EXCEPT !.err = r.err]
    /\ UNCHANGED <<mu, fw, nWrites, lockFrame>>

\* Read, lines 282-289, with no lock held.
LkReadBody ==
    /\ fr.pc = "body"
    /\ LET r == ReadBody(fb, fr.length)
       IN  /\ fb' = r.fb
           /\ fr' = IF r.err = "nil" THEN [fr EXCEPT !.pc = "got", !.p = r.p]
                    ELSE [NotReading EXCEPT !.err = r.err, !.torn = fr.torn]
    /\ UNCHANGED <<mu, fw, nWrites, lockFrame>>

\* Rewrite, lines 272-296: after a record was read, RollbackMeta or UpdateMeta,
\* each under the lock from its first statement to its last.
LkCommit ==
    /\ fr.pc = "got"
    /\ mu = "none"
    /\ \E res \in {"nil", "ErrUnknown"} :
          fb' = IF res = "nil" THEN UpdateMeta(fb).fb ELSE RollbackMeta(fb).fb
    /\ fr' = [NotReading EXCEPT !.torn = fr.torn]
    /\ UNCHANGED <<mu, fw, nWrites, lockFrame>>

\* ------------------------------------------- a client of the spill log
\* The .dat contents from offset `from' on, split into records; a record whose
\* body the file does not hold decodes to <<-1>>.
RECURSIVE Decode(_)
Decode(s) ==
    IF s = <<>> THEN <<>>
    ELSE IF Len(s) - 1 < s[1] THEN << <<-1>> >>
    ELSE <<SubSeq(s, 2, 1 + s[1])>> \o Decode(SubSeq(s, 2 + s[1], Len(s)))

Unread(f, from) == Decode(SubSeq(f.dat, from + 1, Len(f.dat)))

PayloadsOf(q) == [i \in DOMAIN q |-> q[i].p]

Range(s) == {s[i] : i \in DOMAIN s}

Push(t, e) == IF Len(t) < 3 THEN Append(t, e) ELSE Append(Tail(t), e)

Entry(op, p, isnil, err) ==
    [op |-> op, p |-> p, isnil |-> isnil, err |-> err, at |-> fb.consumer]

\* Some flush task spills payload p.
FbWrite(p) ==
    /\ ~fb.closed
    /\ nWrites < MaxWrites
    /\ fb' = Write(fb, p).fb
    /\ pending' = Append(pending, [off |-> Len(fb.dat), p |-> p])
    /\ nWrites' = nWrites + 1
    /\ trail' = Push(trail, Entry("Write", p, FALSE, "nil"))
    /\ justOpened' = FALSE
    /\ UNCHANGED <<readOffs, protocolOk, disturbed>>

\* The consumer reads the next record.
FbRead ==
    /\ ~fb.closed
    /\ LET r == Read(fb)
       IN  /\ fb' = r.fb
           /\ readOffs' = IF r.err = "nil" /\ ~r.isnil
                          THEN Append(readOffs, fb.consumer) ELSE readOffs
           /\ trail' = Push(trail, Entry("Read", r.p, r.isnil, r.err))
    /\ protocolOk' = (protocolOk /\ readOffs = <<>>)
    /\ justOpened' = FALSE
    /\ UNCHANGED <<pending, nWrites, disturbed>>

\* The consumer commits what it read since the last commit.  A record that is
\* still pending when CleanUp truncates the file is gone: its offset becomes -1.
FbUpdateMeta ==
    /\ ~fb.closed
    /\ fb' = UpdateMeta(fb).fb
    /\ LET NotRead(e) == e.off \notin Range(readOffs)
           rest == SelectSeq(pending, NotRead)
       IN  pending' = IF fb'.dat = <<>>
                      THEN [i \in DOMAIN rest |-> [rest[i] EXCEPT !.off = -1]]
                      ELSE rest
    /\ readOffs' = <<>>
    /\ trail' = Push(trail, Entry("UpdateMeta", <<>>, TRUE, "nil"))
    /\ protocolOk' = (protocolOk /\ Len(readOffs) = 1)
    /\ justOpened' = FALSE
    /\ UNCHANGED <<nWrites, disturbed>>

\* The consumer gives up what it read since the last commit.
FbRollbackMeta ==
    /\ ~fb.closed
    /\ LET r == RollbackMeta(fb)
       IN  /\ fb' = r.fb
           /\ trail' = Push(trail, Entry("RollbackMeta", <<>>, TRUE, r.err))
    /\ readOffs' = <<>>
    /\ protocolOk' = (protocolOk /\ Len(readOffs) = 1)
    /\ disturbed' = TRUE
    /\ justOpened' = FALSE
    /\ UNCHANGED <<pending, nWrites>>

\* The process ends between two operations: the handles and what they held in
\* memory are gone, the two files stay.
FbCrash ==
    /\ ~fb.closed
    /\ fb' = [FbClose(fb) EXCEPT !.producer = 0, !.consumer = 0, !.dataflag = FALSE]
    /\ readOffs' = <<>>
    /\ disturbed' = TRUE
    /\ trail' = Push(trail, Entry("Crash", <<>>, TRUE, "nil"))
    /\ justOpened' = FALSE
    /\ UNCHANGED <<pending, nWrites, protocolOk>>

\* The next process opens the log.
FbOpen ==
    /\ fb.closed
    /\ fb' = NewFileBackend(fb.dat, fb.rec)
    /\ trail' = Push(trail, Entry("Open", <<>>, TRUE, "nil"))
    /\ justOpened' = TRUE
    /\ UNCHANGED <<pending, readOffs, nWrites, protocolOk, disturbed>>

InitFB ==
    /\ fb = NewFileBackend(<<>>, <<>>)
    /\ pending = <<>>
    /\ readOffs = <<>>
    /\ trail = <<>>
    /\ nWrites = 0
    /\ protocolOk = TRUE
    /\ disturbed = FALSE
    /\ justOpened = FALSE
    /\ mu = "none"
    /\ fw = [pc |-> "idle", p |-> <<>>]
    /\ fr = NotReading

\* ------------------------------------------------------------ Circle
Keys == 1..MaxKey
HashKeys == {"name", "url", "exi", "idx"}
NoBackend == -1

\* The hash of the consistent-hash library (crc32 in the library) on a small ring.
HashOf(x) == (x * 5 + 3) % RingSize

\* The strings the ring is built from, as numbers: a backend's Name (unique, by
\* checkConfig), its Url (two backends may share one), "|" + idx, and idx.
RingString(hashKey, idx) ==
    CASE hashKey = "name" -> 100 + idx
      [] hashKey = "url" -> 200 + (idx % 2)
      [] hashKey = "exi" -> 300 + idx
      [] OTHER -> 400 + idx

\* consistent.Add(elt): one ring position per replica; a position already taken
\* is overwritten.
RingAdd(r, elt) ==
    LET pos(i) == HashOf(elt * NumberOfReplicas + i)
    IN  [h \in (DOMAIN r) \cup {pos(i) : i \in 0..(NumberOfReplicas - 1)} |->
            IF \E i \in 0..(NumberOfReplicas - 1) : pos(i) = h THEN elt ELSE r[h]]

\* consistent.Get(key): the element at the first ring position above the key's
\* hash, wrapping to the lowest position; "" (here 0) on an empty ring.
RingGet(r, key) ==
    IF DOMAIN r = {} THEN 0
    ELSE LET h == HashOf(key)
             above == {x \in DOMAIN r : x > h}
             at == IF above = {} THEN CHOOSE x \in DOMAIN r : \A y \in DOMAIN r : x <= y
                   ELSE CHOOSE x \in above : \A y \in above : x <= y
         IN  r[at]

\* addRouter: the backend's ring string goes on the ring and into mapToBackend.
addRouter(ic, idx, hashKey) ==
    LET str == RingString(hashKey, idx)
    IN  [router |-> RingAdd(ic.router, str),
         mapToBackend |-> [x \in (DOMAIN ic.mapToBackend) \cup {str} |->
                              IF x = str THEN idx ELSE ic.mapToBackend[x]]]

\* NewCircle: addRouter for each backend of the configuration, in order.
RECURSIVE BuildCircle(_, _, _)
BuildCircle(ic, idx, c) ==
    IF idx >= c.n THEN ic ELSE BuildCircle(addRouter(ic, idx, c.hashKey), idx + 1, c)

NewCircle(c) == BuildCircle([router |-> <<>>, mapToBackend |-> <<>>], 0, c)

\* ic.mapToBackend[value]: nil for a string that is no key of the map.
Lookup(m, value) == IF value \in DOMAIN m THEN m[value] ELSE NoBackend

StoreOtherKey(cache, key, be) == [cache EXCEPT ![(key % MaxKey) + 1] = be]

\* routerCache.Store(key, be)
Store(cache, key, be) == [cache EXCEPT ![key] = be]

\* GetBackend, line 67: routerCache.Load(key); a hit returns the cached backend.
GbLoad(c, key) ==
    /\ gb[c].pc = "idle"
    /\ IF routerCache[key] # NoBackend
       THEN /\ returned' = returned \cup {<<key, routerCache[key]>>}
            /\ UNCHANGED gb
       ELSE /\ gb' = [gb EXCEPT ![c] = [pc |-> "miss", key |-> key, be |-> NoBackend]]
            /\ UNCHANGED returned
    /\ UNCHANGED <<cfg, router, mapToBackend, routerCache, fbVars, engineVars>>

\* GetBackend, lines 71-72: router.Get(key) and the map lookup.
GbGet(c) ==
    /\ gb[c].pc = "miss"
    /\ gb' = [gb EXCEPT ![c].pc = "got",
                        ![c].be = Lookup(mapToBackend, RingGet(router, gb[c].key))]
    /\ UNCHANGED <<cfg, router, mapToBackend, routerCache, returned, fbVars, engineVars>>

\* GetBackend, lines 73-74: routerCache.Store(key, be); return be.
GbStore(c) ==
    /\ gb[c].pc = "got"
    /\ routerCache' = Store(routerCache, gb[c].key, gb[c].be)
    /\ returned' = returned \cup {<<gb[c].key, gb[c].be>>}
    /\ gb' = [gb EXCEPT ![c] = [pc |-> "idle", key |-> 0, be |-> NoBackend]]
    /\ UNCHANGED <<cfg, router, mapToBackend, fbVars, engineVars>>

InitCircle ==
    /\ cfg \in [hashKey : HashKeys, n : 1..MaxBackends]
    /\ router = NewCircle(cfg).router
    /\ mapToBackend = NewCircle(cfg).mapToBackend
    /\ routerCache = [k \in Keys |-> NoBackend]
    /\ gb = [c \in Callers |-> [pc |-> "idle", key |-> 0, be |-> NoBackend]]
    /\ returned = {}

\* ----------------------------------------------------------- Backend
BufKeys == {<<pt.Db, pt.Rp>> : pt \in Points}

HttpResults == {"nil", "ErrBadRequest", "ErrNotFound", "ErrUnknown"}

\* util.Compress: the batch as a gzip stream.
Compress(p) == <<GZ>> \o p

\* url.QueryEscape and url.QueryUnescape on names of letters and spaces.
QueryEscape(str) == [i \in DOMAIN str |-> IF str[i] = SP THEN PLUS ELSE str[i]]

QueryUnescape(str) == [i \in DOMAIN str |-> IF str[i] = PLUS THEN SP ELSE str[i]]

JoinRaw(db, rp, p) == db \o <<SP>> \o rp \o <<SP>> \o p

\* bytes.Join({escape(db), escape(rp), p}, ' '): the payload of a spilled record.
Join(db, rp, p) == QueryEscape(db) \o <<SP>> \o QueryEscape(rp) \o <<SP>> \o p

\* The index of the first ' ' of b after index `from', 0 when there is none.
NextSpace(b, from) ==
    IF \E i \in (from + 1)..Len(b) : b[i] = SP
    THEN CHOOSE i \in (from + 1)..Len(b) :
            b[i] = SP /\ \A j \in (from + 1)..(i - 1) : b[j] # SP
    ELSE 0

\* bytes.SplitN(b, ' ', 3)
SplitN(b) ==
    LET i1 == NextSpace(b, 0)
        i2 == NextSpace(b, i1)
    IN  IF i1 = 0 THEN <<b>>
        ELSE IF i2 = 0 THEN <<SubSeq(b, 1, i1 - 1), SubSeq(b, i1 + 1, Len(b))>>
        ELSE <<SubSeq(b, 1, i1 - 1), SubSeq(b, i1 + 1, i2 - 1), SubSeq(b, i2 + 1, Len(b))>>

\* The number of lines a batch holds.
RECURSIVE CountLines(_)
CountLines(p) ==
    IF p = <<>> THEN 0 ELSE (IF Head(p) = NL THEN 1 ELSE 0) + CountLines(Tail(p))

\* A nil *bytes.Buffer.
NilBuffer == 0

\* &bytes.Buffer{}: a buffer no CacheBuffer and no batch points to yet.
NewBuffer(h) == CHOOSE r \in 1..(Cardinality(DOMAIN h) + 1) : r \notin DOMAIN h

\* The heap with object r set to v.
Put(h, r, v) == [x \in (DOMAIN h) \cup {r} |-> IF x = r THEN v ELSE h[x]]

\* bytes.Buffer.Write(b): b goes behind the buffer's len bytes of its array.
BufferWrite(o, b) ==
    [arr |-> SubSeq(o.arr, 1, o.len) \o b \o SubSeq(o.arr, o.len + Len(b) + 1, Len(o.arr)),
     len |-> o.len + Len(b)]

\* The bytes a slice [ref, len] shows: the first len bytes of the array of ref.
Bytes(h, sl) == SubSeq(h[sl.ref].arr, 1, sl.len)

\* cb.Buffer.Bytes() as a value: what the CacheBuffer of key holds.
BufferBytes(st, key) ==
    IF st.buffers[key].Buffer = NilBuffer THEN <<>>
    ELSE Bytes(st.heap, [ref |-> st.buffers[key].Buffer,
                         len |-> st.heap[st.buffers[key].Buffer].len])

\* The batch's array is garbage once its task has returned, unless a CacheBuffer
\* still points to it.
Release(h, bufs, ref) ==
    IF \E key \in DOMAIN bufs : bufs[key].Buffer = ref
    THEN h ELSE [x \in (DOMAIN h) \ {ref} |-> h[x]]

WriteBufferRaw(st, point) ==
    LET key == <<point.Db, point.Rp>>
        fresh == st.buffers[key].Buffer = NilBuffer
        ref == IF fresh THEN NewBuffer(st.heap) ELSE st.buffers[key].Buffer
        obj == IF fresh THEN [arr |-> <<>>, len |-> 0] ELSE st.heap[ref]
    IN  [buffers |-> [st.buffers EXCEPT ![key] = [made |-> TRUE, Buffer |-> ref,
                                                  Counter |-> @.Counter + 1]],
         heap |-> Put(st.heap, ref, BufferWrite(obj, point.Line))]

WriteBufferNoCount(st, point) ==
    LET key == <<point.Db, point.Rp>>
        fresh == st.buffers[key].Buffer = NilBuffer
        ref == IF fresh THEN NewBuffer(st.heap) ELSE st.buffers[key].Buffer
        obj == IF fresh THEN [arr |-> <<>>, len |-> 0] ELSE st.heap[ref]
        line == IF Last(point.Line) # NL THEN point.Line \o <<NL>> ELSE point.Line
    IN  [buffers |-> [st.buffers EXCEPT ![key] = [made |-> TRUE, Buffer |-> ref,
                                                  Counter |-> @.Counter]],
         heap |-> Put(st.heap, ref, BufferWrite(obj, line))]

\* WriteBuffer, lines 117-147: the CacheBuffer of (db, rp) is made on first use
\* with a new bytes.Buffer, its Counter goes up, a nil Buffer is replaced by a
\* new one, the line is written to it and ends in '\n'.
WriteBuffer(st, point) ==
    LET key == <<point.Db, point.Rp>>
        fresh == st.buffers[key].Buffer = NilBuffer
        ref == IF fresh THEN NewBuffer(st.heap) ELSE st.buffers[key].Buffer
        obj == IF fresh THEN [arr |-> <<>>, len |-> 0] ELSE st.heap[ref]
        line == IF Last(point.Line) # NL THEN point.Line \o <<NL>> ELSE point.Line
    IN  [buffers |-> [st.buffers EXCEPT ![key] = [made |-> TRUE, Buffer |-> ref,
                                                  Counter |-> @.Counter + 1]],
         heap |-> Put(st.heap, ref, BufferWrite(obj, line))]

FlushBufferReset(st, key) ==
    LET ref == st.buffers[key].Buffer
    IN  IF ref = NilBuffer
        THEN [buffers |-> st.buffers, heap |-> st.heap, submit |-> FALSE,
              p |-> [ref |-> NilBuffer, len |-> 0]]
        ELSE [buffers |-> [st.buffers EXCEPT ![key].Counter = 0],
              heap |-> [st.heap EXCEPT ![ref].len = 0],
              submit |-> st.heap[ref].len # 0,
              p |-> [ref |-> ref, len |-> st.heap[ref].len]]

FlushBufferKeepCount(st, key) ==
    LET ref == st.buffers[key].Buffer
    IN  IF ref = NilBuffer
        THEN [buffers |-> st.buffers, heap |-> st.heap, submit |-> FALSE,
              p |-> [ref |-> NilBuffer, len |-> 0]]
        ELSE [buffers |-> [st.buffers EXCEPT ![key].Buffer = NilBuffer],
              heap |-> IF st.heap[ref].len = 0 THEN Release(st.heap, <<>>, ref)
                       ELSE st.heap,
              submit |-> st.heap[ref].len # 0,
              p |-> [ref |-> ref, len |-> st.heap[ref].len]]

\* FlushBuffer, lines 159-171: p is a slice of the Buffer's array; the
\* CacheBuffer is left with a nil Buffer and Counter 0; an empty batch is not
\* submitted.
FlushBuffer(st, key) ==
    LET ref == st.buffers[key].Buffer
    IN  IF ref = NilBuffer
        THEN [buffers |-> st.buffers, heap |-> st.heap, submit |-> FALSE,
              p |-> [ref |-> NilBuffer, len |-> 0]]
        ELSE [buffers |-> [st.buffers EXCEPT ![key].Buffer = NilBuffer,
                                            ![key].Counter = 0],
              heap |-> IF st.heap[ref].len = 0 THEN Release(st.heap, <<>>, ref)
                       ELSE st.heap,
              submit |-> st.heap[ref].len # 0,
              p |-> [ref |-> ref, len |-> st.heap[ref].len]]

\* What a caller and the worker hold when they hold no point and no batch.
NoPoint == [Db |-> <<>>, Rp |-> <<>>, Line |-> <<>>]

NoSlice == [ref |-> NilBuffer, len |-> 0]

NoTask == [key |-> <<>>, p |-> NoSlice, was |-> <<>>]

\* The answers after which a batch is not kept: delivered, or dropped.
Final == {"nil", "ErrBadRequest", "ErrNotFound"}

others == <<pending, readOffs, trail, nWrites, protocolOk, disturbed, justOpened, lockVars,
            circleVars>>

\* WritePoint, lines 109-111: the caller looks at running.
WpCheck(w, pt) ==
    /\ wp[w].pc = "idle"
    /\ tally.calls < MaxPoints
    /\ wp' = [wp EXCEPT ![w] = [pc |-> IF running THEN "send" ELSE "idle",
                                point |-> IF running THEN pt ELSE NoPoint,
                                result |-> IF running THEN "none" ELSE "ErrClosedPipe",
                                afterClose |-> cl.returned > 0]]
    /\ tally' = [tally EXCEPT !.calls = @ + 1]
    /\ UNCHANGED <<fb, running, chWrite, chClosed, cl, wk, chTimer, buffers, heap, wg, tasks,
                   active, rewriting, rw, shut, others>>

\* WritePoint, line 112: the send on chWrite; it blocks while the channel is
\* full and panics when the channel is closed.
WpSend(w) ==
    /\ wp[w].pc = "send"
    /\ chClosed \/ Len(chWrite) < ChanCap
    /\ IF chClosed
       THEN /\ wp' = [wp EXCEPT ![w].pc = "idle", ![w].result = "panic",
                                ![w].point = NoPoint]
            /\ UNCHANGED <<chWrite, tally>>
       ELSE /\ wp' = [wp EXCEPT ![w].pc = "idle", ![w].result = "ok",
                                ![w].point = NoPoint]
            /\ chWrite' = Append(chWrite, wp[w].point)
            /\ tally' = [tally EXCEPT !.accepted = @ + 1]
    /\ UNCHANGED <<fb, running, chClosed, cl, wk, chTimer, buffers, heap, wg, tasks,
                   active, rewriting, rw, shut, others>>

CloseStoreSkip ==
    /\ cl.pc = "idle"
    /\ ~cl.panicked
    /\ cl.returned < MaxCloses
    /\ cl' = [cl EXCEPT !.pc = "stored"]
    /\ UNCHANGED <<fb, running, chWrite, chClosed, wp, wk, chTimer, buffers, heap, wg, tasks,
                   active, rewriting, rw, shut, tally, others>>

\* Close, line 304: running.Store(false).
CloseStore ==
    /\ cl.pc = "idle"
    /\ ~cl.panicked
    /\ cl.returned < MaxCloses
    /\ running' = FALSE
    /\ cl' = [cl EXCEPT !.pc = "stored"]
    /\ UNCHANGED <<fb, chWrite, chClosed, wp, wk, chTimer, buffers, heap, wg, tasks,
                   active, rewriting, rw, shut, tally, others>>

\* Close, line 305: close(chWrite), a panic when the channel is closed already.
CloseChan ==
    /\ cl.pc = "stored"
    /\ IF chClosed
       THEN /\ cl' = [cl EXCEPT !.pc = "idle", !.panicked = TRUE]
            /\ UNCHANGED chClosed
       ELSE /\ cl' = [cl EXCEPT !.pc = "idle", !.returned = @ + 1]
            /\ chClosed' = TRUE
    /\ UNCHANGED <<fb, running, chWrite, wp, wk, chTimer, buffers, heap, wg, tasks,
                   active, rewriting, rw, shut, tally, others>>

\* worker, line 78: for ib.IsRunning().
WkFor ==
    /\ wk.pc = "for"
    /\ wk' = IF running THEN [wk EXCEPT !.pc = "select"]
             ELSE [wk EXCEPT !.pc = "done", !.exit = "loop"]
    /\ UNCHANGED <<fb, running, chWrite, chClosed, wp, cl, chTimer, buffers, heap, wg, tasks,
                   active, rewriting, rw, shut, tally, others>>

\* worker, lines 80 and 90: a point is received; WriteBuffer appends it and
\* flushes its (db, rp) at flushSize, or arms the timer when none is armed.
WkRecv ==
    /\ wk.pc = "select"
    /\ chWrite # <<>>
    /\ chWrite' = Tail(chWrite)
    /\ LET point == Head(chWrite)
           key == <<point.Db, point.Rp>>
           st == WriteBuffer([buffers |-> buffers, heap |-> heap], point)
           fl == FlushBuffer(st, key)
       IN  IF st.buffers[key].Counter >= FlushSize
           THEN /\ buffers' = fl.buffers
                /\ heap' = fl.heap
                /\ wg' = IF fl.submit THEN wg + 1 ELSE wg
                /\ wk' = [wk EXCEPT !.pc = IF fl.submit THEN "submit" ELSE "for",
                                    !.task = IF fl.submit
                                             THEN [key |-> key, p |-> fl.p,
                                                   was |-> BufferBytes(st, key)]
                                             ELSE NoTask]
                /\ UNCHANGED chTimer
           ELSE /\ buffers' = st.buffers
                /\ heap' = st.heap
                /\ chTimer' = "armed"
                /\ wk' = [wk EXCEPT !.pc = "for"]
                /\ UNCHANGED wg
    /\ UNCHANGED <<fb, running, chClosed, wp, cl, tasks, active, rewriting, rw, shut,
                   tally, others>>

\* Flush, lines 211-214: the timer is cleared; the buffers with Counter > 0 are
\* to be flushed.
Flush(cont) ==
    /\ chTimer' = "nil"
    /\ wk' = [wk EXCEPT !.pc = "flush", !.cont = cont,
                        !.todo = {key \in BufKeys : buffers[key].Counter > 0}]

\* worker, lines 81-83: chWrite is closed and empty.
WkClosed ==
    /\ wk.pc = "select"
    /\ chWrite = <<>> /\ chClosed
    /\ Flush("closed")
    /\ UNCHANGED <<fb, running, chWrite, chClosed, wp, cl, buffers, heap, wg, tasks,
                   active, rewriting, rw, shut, tally, others>>

\* worker, lines 92-93: the timer fires.
WkTimer ==
    /\ wk.pc = "select"
    /\ chTimer = "armed"
    /\ Flush("timer")
    /\ UNCHANGED <<fb, running, chWrite, chClosed, wp, cl, buffers, heap, wg, tasks,
                   active, rewriting, rw, shut, tally, others>>

WkTickerAlways ==
    /\ wk.pc = "select"
    /\ wk' = [wk EXCEPT !.pc = "for"]
    /\ IF IsData(fb) /\ \E id \in RwIds : rw[id].pc = "off"
       THEN /\ rewriting' = TRUE
            /\ rw' = [rw EXCEPT ![CHOOSE id \in RwIds : rw[id].pc = "off"].pc = "loop"]
       ELSE UNCHANGED <<rewriting, rw>>
    /\ UNCHANGED <<fb, running, chWrite, chClosed, wp, cl, chTimer, buffers, heap, wg, tasks,
                   active, shut, tally, others>>

\* worker, lines 102-103, and RewriteIdle: a RewriteLoop is started when none
\* is rewriting and the spill log has data.
WkTicker ==
    /\ wk.pc = "select"
    /\ wk' = [wk EXCEPT !.pc = "for"]
    /\ IF ~rewriting /\ IsData(fb) /\ \E id \in RwIds : rw[id].pc = "off"
       THEN /\ rewriting' = TRUE
            /\ rw' = [rw EXCEPT ![CHOOSE id \in RwIds : rw[id].pc = "off"].pc = "loop"]
       ELSE UNCHANGED <<rewriting, rw>>
    /\ UNCHANGED <<fb, running, chWrite, chClosed, wp, cl, chTimer, buffers, heap, wg, tasks,
                   active, shut, tally, others>>

\* Flush, lines 212-218: FlushBuffer for the next (db, rp); after the last one
\* the worker goes on (line 84, or lines 94-95).
WkFlush ==
    /\ wk.pc = "flush"
    /\ IF wk.todo = {}
       THEN /\ wk' = IF wk.cont = "timer" /\ running
                     THEN [wk EXCEPT !.pc = "for", !.cont = "recv"]
                     ELSE [wk EXCEPT !.pc = "wait"]
            /\ UNCHANGED <<buffers, heap, wg>>
       ELSE \E key \in wk.todo :
               LET fl == FlushBuffer([buffers |-> buffers, heap |-> heap], key)
               IN  /\ buffers' = fl.buffers
                   /\ heap' = fl.heap
                   /\ wg' = IF fl.submit THEN wg + 1 ELSE wg
                   /\ wk' = [wk EXCEPT !.pc = IF fl.submit THEN "submit" ELSE "flush",
                                       !.todo = @ \ {key},
                                       !.task = IF fl.submit
                                                THEN [key |-> key, p |-> fl.p,
                                                      was |-> BufferBytes(
                                                          [buffers |-> buffers,
                                                           heap |-> heap], key)]
                                                ELSE NoTask]
    /\ UNCHANGED <<fb, running, chWrite, chClosed, wp, cl, chTimer, tasks,
                   active, rewriting, rw, shut, tally, others>>

\* FlushBuffer, line 173: pool.Submit, which blocks while the pool is full.
WkSubmit ==
    /\ wk.pc = "submit"
    /\ BagCardinality(tasks) < ConnPoolSize
    /\ tasks' = tasks (+) SetToBag({[key |-> wk.task.key, p |-> wk.task.p,
                                     was |-> wk.task.was, pc |-> "new",
                                     z |-> <<>>, err |-> "none"]})
    /\ wk' = [wk EXCEPT !.pc = IF wk.cont = "recv" THEN "for" ELSE "flush",
                        !.task = NoTask]
    /\ UNCHANGED <<fb, running, chWrite, chClosed, wp, cl, chTimer, buffers, heap, wg,
                   active, rewriting, rw, shut, tally, others>>

\* worker, lines 84-88 and 95-99: wg.Wait(), then HttpBackend.Close(),
\* fb.Close(), pool.Release(), return.
WkWait ==
    /\ wk.pc = "wait"
    /\ wg = 0
    /\ shut' = TRUE
    /\ fb' = FbClose(fb)
    /\ wk' = [wk EXCEPT !.pc = "done", !.exit = wk.cont, !.cont = "recv"]
    /\ UNCHANGED <<running, chWrite, chClosed, wp, cl, chTimer, buffers, heap, wg, tasks,
                   active, rewriting, rw, tally, others>>

\* The task FlushBuffer submits, lines 174-185: the batch is compressed and,
\* when the backend is active, posted with WriteCompressed.
TaskPost(t) ==
    /\ BagIn(t, tasks)
    /\ t.pc = "new"
    /\ \E res \in HttpResults :
          tasks' = (tasks (-) SetToBag({t})) (+)
                   SetToBag({[t EXCEPT !.pc = "posted",
                                       !.z = Compress(Bytes(heap, t.p)),
                                       !.err = IF active THEN res ELSE "NotActive"]})
    /\ UNCHANGED <<fb, running, chWrite, chClosed, wp, cl, wk, chTimer, buffers, heap, wg,
                   active, rewriting, rw, shut, tally, others>>

\* The task, lines 186-207: it returns after nil, ErrBadRequest and ErrNotFound;
\* else db, rp and the compressed batch are written to the spill log.
\* wg.Done() is deferred.
TaskEnd(t) ==
    /\ BagIn(t, tasks)
    /\ t.pc = "posted"
    /\ tasks' = tasks (-) SetToBag({t})
    /\ wg' = wg - 1
    /\ heap' = Release(heap, buffers, t.p.ref)
    /\ LET w == Write(fb, Join(t.key[1], t.key[2], t.z))
       IN  IF t.err \in Final
           THEN /\ tally' = [tally EXCEPT !.settled = @ + CountLines(t.z)]
                /\ UNCHANGED fb
           ELSE /\ fb' = w.fb
                /\ tally' = IF w.err = "nil"
                            THEN [tally EXCEPT !.settled = @ + CountLines(t.z)]
                            ELSE tally
    /\ UNCHANGED <<running, chWrite, chClosed, wp, cl, wk, chTimer, buffers,
                   active, rewriting, rw, shut, others>>

\* The health check finds the backend up or down.
HealthCheck ==
    /\ active' = ~active
    /\ UNCHANGED <<fb, running, chWrite, chClosed, wp, cl, wk, chTimer, buffers, heap, wg, tasks,
                   rewriting, rw, shut, tally, others>>

\* What Rewrite holds between two records.
NoRecord == [pc |-> "loop", at |-> 0, b |-> <<>>, db |-> <<>>, rp |-> <<>>, p |-> <<>>,
             err |-> "none"]

\* RewriteLoop, lines 230-238, and Rewrite, lines 248-271: the loop ends when
\* the spill log has no data (rewriting is cleared) or the engine is not
\* running; it sleeps while the backend is not active; else the next record is
\* read and split into db, rp and the compressed batch.  A record that does
\* not split into three parts ends the call and the loop goes on.
RwLoop(id) ==
    /\ rw[id].pc = "loop"
    /\ IF ~IsData(fb)
       THEN /\ rewriting' = FALSE
            /\ rw' = [rw EXCEPT ![id].pc = "off"]
            /\ UNCHANGED fb
       ELSE IF ~running
       THEN /\ rw' = [rw EXCEPT ![id].pc = "off"]
            /\ UNCHANGED <<fb, rewriting>>
       ELSE IF ~active
       THEN UNCHANGED <<fb, rewriting, rw>>
       ELSE LET r == Read(fb)
                parts == SplitN(r.p)
            IN  /\ fb' = r.fb
                /\ rw' = IF r.err = "nil" /\ ~r.isnil /\ Len(parts) = 3
                         THEN [rw EXCEPT ![id] = [pc |-> "send", at |-> fb.consumer,
                                                  b |-> r.p,
                                                  db |-> QueryUnescape(parts[1]),
                                                  rp |-> QueryUnescape(parts[2]),
                                                  p |-> parts[3], err |-> "none"]]
                         ELSE rw
                /\ UNCHANGED rewriting
    /\ UNCHANGED <<running, chWrite, chClosed, wp, cl, wk, chTimer, buffers, heap, wg,
                   tasks, active, shut, tally, others>>

\* Rewrite, line 272: WriteCompressed(db, rp, p[2]).
RwAnswer(id, res) ==
    /\ rw[id].pc = "send"
    /\ rw' = [rw EXCEPT ![id].pc = "commit", ![id].err = res]
    /\ tally' = [tally EXCEPT
                    !.posted = IF res = "nil" THEN Append(@, rw[id].b) ELSE @,
                    !.sent = IF res \in Final THEN @ \cup {rw[id].at} ELSE @]
    /\ UNCHANGED <<fb, running, chWrite, chClosed, wp, cl, wk, chTimer, buffers, heap, wg,
                   tasks, active, rewriting, shut, others>>

RwSend(id) == \E res \in HttpResults : RwAnswer(id, res)

\* Rewrite, lines 274-296: RollbackMeta on an error other than ErrBadRequest
\* and ErrNotFound, else UpdateMeta.
RwCommit(id) ==
    /\ rw[id].pc = "commit"
    /\ fb' = IF rw[id].err \in Final THEN UpdateMeta(fb).fb ELSE RollbackMeta(fb).fb
    /\ rw' = [rw EXCEPT ![id] = NoRecord]
    /\ tally' = IF fb'.dat = <<>> THEN [tally EXCEPT !.sent = {}] ELSE tally
    /\ UNCHANGED <<running, chWrite, chClosed, wp, cl, wk, chTimer, buffers, heap, wg,
                   tasks, active, rewriting, shut, others>>

\* NewBackend, lines 45-71.
InitEngine ==
    /\ running = TRUE
    /\ chWrite = <<>>
    /\ chClosed = FALSE
    /\ wp = [w \in Writers |-> [pc |-> "idle", point |-> NoPoint,
                               result |-> "none", afterClose |-> FALSE]]
    /\ cl = [pc |-> "idle", returned |-> 0, panicked |-> FALSE]
    /\ wk = [pc |-> "for", cont |-> "recv", exit |-> "none", todo |-> {},
             task |-> NoTask]
    /\ chTimer = "nil"
    /\ buffers = [key \in BufKeys |->
                     [made |-> FALSE, Buffer |-> NilBuffer, Counter |-> 0]]
    /\ heap = <<>>
    /\ wg = 0
    /\ tasks = EmptyBag
    /\ active \in BOOLEAN
    /\ rewriting = FALSE
    /\ rw = [id \in RwIds |-> [NoRecord EXCEPT !.pc = "off"]]
    /\ shut = FALSE
    /\ tally = [calls |-> 0, accepted |-> 0, settled |-> 0, posted |-> <<>>,
                sent |-> {}]

\* A Backend with a fresh data directory, in a circle of the default hash_key.
Init == InitFB /\ InitCircle /\ InitEngine /\ cfg = [hashKey |-> "idx", n |-> MaxBackends]

\* The spill log alone, under a client.
InitSpill == Init /\ active

\* A circle of any configuration, its backends idle.
InitRouting == InitFB /\ InitCircle /\ InitEngine /\ active

NextFB ==
    \/ \E p \in Payloads : FbWrite(p) /\ UNCHANGED <<lockVars, circleVars, engineVars>>
    \/ FbRead /\ UNCHANGED <<lockVars, circleVars, engineVars>>
    \/ FbUpdateMeta /\ UNCHANGED <<lockVars, circleVars, engineVars>>
    \/ FbRollbackMeta /\ UNCHANGED <<lockVars, circleVars, engineVars>>
    \/ FbCrash /\ UNCHANGED <<lockVars, circleVars, engineVars>>
    \/ FbOpen /\ UNCHANGED <<lockVars, circleVars, engineVars>>

NextCircle ==
    \/ \E c \in Callers, key \in Keys : GbLoad(c, key)
    \/ \E c \in Callers : GbGet(c)
    \/ \E c \in Callers : GbStore(c)

\* A circle with concurrent callers of GetBackend.
SpecCircle == InitRouting /\ [][NextCircle]_vars

Next ==
    \/ \E w \in Writers, pt \in Points : WpCheck(w, pt)
    \/ \E w \in Writers : WpSend(w)
    \/ CloseStore
    \/ CloseChan
    \/ WkFor
    \/ WkRecv
    \/ WkClosed
    \/ WkTimer
    \/ WkTicker
    \/ WkFlush
    \/ WkSubmit
    \/ WkWait
    \/ \E t \in BagToSet(tasks) : TaskPost(t)
    \/ \E t \in BagToSet(tasks) : TaskEnd(t)
    \/ HealthCheck
    \/ \E id \in RwIds : RwLoop(id)
    \/ \E id \in RwIds : RwSend(id)
    \/ \E id \in RwIds : RwCommit(id)

\* One Backend: callers of WritePoint and Close, the worker, its flush tasks and
\* its RewriteLoop.
Spec == Init /\ [][Next]_vars

\* The spill log under an arbitrary client, crashes between operations included.
SpecFB == InitSpill /\ [][NextFB]_vars

\* ------------------------------- a Backend over an earlier run's data directory
\* The records flush tasks write: db, rp and the compressed batch "a\n".
Spilled == {Join(key[1], key[2], Compress(<<97, NL>>)) : key \in BufKeys}

\* The records a .dat file may hold: those, and one with no space in it.
Records == Spilled \cup {<<97>>}

SpillLogs(recs) == UNION {[1..n -> recs] : n \in 0..MaxRecords}

RECURSIVE DatOf(_)
DatOf(log) == IF log = <<>> THEN <<>> ELSE Frame(Head(log)) \o DatOf(Tail(log))

\* The .rec files an earlier run may have left with a log: empty (nothing was
\* committed), or the offset of one of its records.
MetaFiles(log) ==
    {<<>>, <<0>>} \cup {<<Len(DatOf(SubSeq(log, 1, k)))>> : k \in 1..(Len(log) - 1)}

\* The offsets at which the records of a .dat file start.
RecordOffsets(dat) ==
    {Len(DatOf(SubSeq(Decode(dat), 1, k))) : k \in 0..(Len(Decode(dat)) - 1)}

\* The records of f from the committed offset on, as `pending' keeps them.
Uncommitted(f) ==
    LET u == Unread(f, MetaOffset(f))
    IN  [i \in DOMAIN u |-> [off |-> MetaOffset(f) + Len(DatOf(SubSeq(u, 1, i - 1))),
                             p |-> u[i]]]

\* NewBackend over the data directory holding log and rec.
InitOver(log, rec) ==
    /\ fb = NewFileBackend(DatOf(log), rec)
    /\ pending = Uncommitted(fb)
    /\ readOffs = <<>>
    /\ trail = <<>>
    /\ nWrites = 0
    /\ protocolOk = TRUE
    /\ disturbed = FALSE
    /\ justOpened = FALSE
    /\ mu = "none"
    /\ fw = [pc |-> "idle", p |-> <<>>]
    /\ fr = NotReading
    /\ InitCircle
    /\ cfg = [hashKey |-> "idx", n |-> MaxBackends]
    /\ InitEngine

\* Any data directory.
InitRewrite == \E log \in SpillLogs(Records) : \E rec \in MetaFiles(log) : InitOver(log, rec)

\* The worker's ticker and shutdown, the RewriteLoop, the health check and a
\* caller of Close; no point is written.
NextRewrite ==
    \/ CloseStore
    \/ CloseChan
    \/ WkFor
    \/ WkTicker
    \/ WkClosed
    \/ WkFlush
    \/ WkWait
    \/ HealthCheck
    \/ \E id \in RwIds : RwLoop(id)
    \/ \E id \in RwIds : RwSend(id)
    \/ \E id \in RwIds : RwCommit(id)

SpecRewrite == InitRewrite /\ [][NextRewrite]_vars

\* A data directory with records of flush tasks to deliver, the backend active.
InitDrain ==
    /\ \E log \in SpillLogs(Spilled) \ {<<>>} : \E rec \in MetaFiles(log) : InitOver(log, rec)
    /\ active

\* The engine keeps running, the backend stays active and answers nil, nothing
\* is spilled: the worker's ticker and the RewriteLoop.
NextDrain ==
    \/ WkFor
    \/ WkTicker
    \/ \E id \in RwIds : RwLoop(id)
    \/ \E id \in RwIds : RwAnswer(id, "nil")
    \/ \E id \in RwIds : RwCommit(id)

\* The worker and the RewriteLoop are goroutines the scheduler keeps running,
\* and the rewrite ticker keeps ticking.
FairDrain ==
    /\ WF_vars(WkFor)
    /\ WF_vars(WkTicker)
    /\ \A id \in RwIds : WF_vars(RwLoop(id))
    /\ \A id \in RwIds : WF_vars(RwAnswer(id, "nil"))
    /\ \A id \in RwIds : WF_vars(RwCommit(id))

SpecDrain == InitDrain /\ [][NextDrain]_vars /\ FairDrain

NextLock ==
    \/ \E p \in Payloads : LkWriteLen(p)
    \/ LkWriteBody
    \/ LkWriteDone
    \/ LkReadIsData
    \/ LkReadLen
    \/ LkReadBody
    \/ LkCommit

\* The spill log with a goroutine in Write and the goroutine of Rewrite, each
\* going statement by statement.
SpecLock == InitSpill /\ [][NextLock]_vars

\* WritePoint, lines 109-113, on an engine nobody closes: the check of running
\* and the send on chWrite, which blocks while the channel is full.
WritePoint(pt) ==
    /\ running /\ ~chClosed
    /\ tally.calls < MaxFeed
    /\ Len(chWrite) < ChanCap
    /\ chWrite' = Append(chWrite, pt)
    /\ tally' = [tally EXCEPT !.calls = @ + 1, !.accepted = @ + 1]
    /\ UNCHANGED <<fb, running, chClosed, wp, cl, wk, chTimer, buffers, heap, wg, tasks,
                   active, rewriting, rw, shut, others>>

NextBuffers ==
    \/ \E pt \in Points : WritePoint(pt)
    \/ WkFor
    \/ WkRecv
    \/ WkTimer
    \/ WkFlush
    \/ WkSubmit
    \/ \E t \in BagToSet(tasks) : TaskPost(t)
    \/ \E t \in BagToSet(tasks) : TaskEnd(t)

\* The worker of a running engine buffering and flushing the points of up to
\* MaxFeed WritePoint calls.
SpecBuffers == Init /\ [][NextBuffers]_vars

\* ================================================================ claims

\* C1: every point WritePoint enqueued ends in a batch that was posted, dropped
\* on ErrBadRequest or ErrNotFound, or written to the spill log.  As the final
\* result of a run: once the worker has returned, no flush task is left and no
\* WritePoint call is under way, every enqueued point has met such an outcome.
C1_EveryPointSettled ==
    (wk.pc = "done" /\ tasks = EmptyBag /\ \A w \in Writers : wp[w].pc = "idle") =>
        tally.settled = tally.accepted

\* C2: when the log is opened after a crash, the consumer stands at the offset
\* stored in .rec and the records from there on are exactly the records that
\* were written and not committed, in order (none delivered again, none lost).
C2_CrashResume ==
    (justOpened /\ protocolOk) =>
        /\ fb.consumer = MetaOffset(fb)
        /\ Unread(fb, fb.consumer) = PayloadsOf(pending)

\* C3 as stated: once a Close call has returned, no flush task runs, the spill
\* log's files are closed and every WritePoint call begun later returns
\* ErrClosedPipe.
C3_ClosedWhenCloseReturns ==
    cl.returned > 0 =>
        /\ tasks = EmptyBag /\ wg = 0
        /\ fb.closed
        /\ \A w \in Writers :
              wp[w].afterClose => wp[w].pc = "idle" /\ wp[w].result = "ErrClosedPipe"

\* C3 as amended: every WritePoint call begun after a Close call returned
\* returns ErrClosedPipe; Close does not wait for the worker, and it is when the
\* worker has gone through its shutdown sequence (wg.Wait, HttpBackend.Close,
\* fb.Close, pool.Release) that no flush task runs and the files are closed.
C3_ClosedAfterShutdown ==
    /\ \A w \in Writers :
          wp[w].afterClose => wp[w].pc = "idle" /\ wp[w].result = "ErrClosedPipe"
    /\ wk.exit \in {"closed", "timer"} =>
          tasks = EmptyBag /\ wg = 0 /\ fb.closed /\ shut

\* Close has returned while a flush task was still in the pool; later the
\* worker saw the closed channel and shut down, and a WritePoint call made
\* after Close was refused.
C3_Witness ==
    /\ cl.returned > 0
    /\ wk.exit = "closed"
    /\ tally.settled > 0
    /\ fb.dat # <<>>
    /\ \E w \in Writers : wp[w].afterClose /\ wp[w].result = "ErrClosedPipe"

\* C4: a WritePoint call ends with the point enqueued or with ErrClosedPipe,
\* never otherwise.
C4_OkOrClosed ==
    \A w \in Writers : wp[w].result \in {"none", "ok", "ErrClosedPipe"}

\* C5: every call of Close completes normally, a second one included.
C5_CloseIdempotent == ~cl.panicked

\* C6: every backend GetBackend returned for a key, and every backend the cache
\* holds for it, is the one a circle freshly built from the same configuration
\* maps the key to; so all calls for a key return the same backend.
C6_StableRouting ==
    LET fresh == NewCircle(cfg)
        FreshBackend(key) == Lookup(fresh.mapToBackend, RingGet(fresh.router, key))
    IN  /\ \A kb \in returned : kb[2] = FreshBackend(kb[1])
        /\ \A key \in Keys : routerCache[key] \in {NoBackend, FreshBackend(key)}

\* Two callers missed the cache for the same key at once, one has stored its
\* result and the key has been returned, while keys go to different backends.
C6_Witness ==
    /\ \E key \in Keys :
          /\ gb["c1"].pc = "got" /\ gb["c1"].key = key
          /\ routerCache[key] # NoBackend
          /\ \E kb \in returned : kb[1] = key
    /\ \E a, b \in returned : a[2] # b[2]

\* C7: with every Read that returns a record followed by UpdateMeta, each Read returns the oldest
\* record that was written and not yet returned, and no record once all
\* written payloads were returned.
C7_Fifo ==
    (protocolOk /\ ~disturbed /\ trail # <<>> /\ Last(trail).op = "Read") =>
        /\ Last(trail).err = "nil"
        /\ IF pending = <<>>
           THEN Last(trail).isnil
           ELSE ~Last(trail).isnil /\ Last(trail).p = Head(pending).p

\* A record was written, read and committed, a second one read after it, and
\* the Read after the last record came back empty.
C7_Witness ==
    /\ protocolOk /\ ~disturbed
    /\ nWrites = MaxWrites
    /\ Len(trail) = 3
    /\ trail[1].op = "Read" /\ ~trail[1].isnil /\ trail[1].p = <<2, 1>>
    /\ trail[2].op = "UpdateMeta"
    /\ trail[3].op = "Read" /\ trail[3].isnil
    /\ pending = <<>>

\* C8: Read; RollbackMeta; Read from a committed position with unread data: the
\* second Read returns the record the first one returned.
C8_RollbackIdempotent ==
    ( /\ protocolOk
      /\ Len(trail) = 3
      /\ trail[1].op = "Read" /\ ~trail[1].isnil /\ trail[1].err = "nil"
      /\ trail[1].at = MetaOffset(fb)
      /\ trail[2].op = "RollbackMeta"
      /\ trail[3].op = "Read" ) =>
        /\ trail[3].err = "nil"
        /\ ~trail[3].isnil
        /\ trail[3].p = trail[1].p

\* C9: a step never lowers the offset stored in .rec, except UpdateMeta's reset
\* to 0 taken when the consumer's position equals the producer's.
C9_MetaMonotone ==
    [][ \/ MetaOffset(fb') >= MetaOffset(fb)
        \/ /\ MetaOffset(fb') = 0
           /\ fb.consumer = fb.producer
           /\ Last(trail').op = "UpdateMeta" ]_vars

\* An offset above 0 was committed, and the consumer was rolled back to it and
\* has read on.
C9_Witness ==
    /\ MetaOffset(fb) > 0
    /\ Len(trail) = 3
    /\ trail[1].op = "UpdateMeta"
    /\ trail[2].op = "RollbackMeta"
    /\ trail[3].op = "Read" /\ ~trail[3].isnil
    /\ fb.consumer > MetaOffset(fb)

\* C10 as stated: dataflag equals (producer offset > consumer offset).
C10_FlagIsProducerAboveConsumer ==
    ~fb.closed => (IsData(fb) = (fb.producer > fb.consumer))

\* C10 as amended: dataflag equals (producer offset > committed consumer offset,
\* the one .rec stores), hence (producer > consumer) whenever the consumer
\* stands at the committed offset.
C10_FlagIsProducerAboveCommitted ==
    ~fb.closed =>
        /\ IsData(fb) = (fb.producer > MetaOffset(fb))
        /\ (fb.consumer = MetaOffset(fb) => IsData(fb) = (fb.producer > fb.consumer))

\* The last record was read and not yet committed: the consumer has caught the
\* producer and dataflag is still set.
C10_Witness ==
    /\ ~fb.closed
    /\ IsData(fb)
    /\ fb.consumer = fb.producer
    /\ MetaOffset(fb) > 0
    /\ trail # <<>> /\ Last(trail).op = "Read"

\* C11: once FlushBuffer has taken a batch, the CacheBuffer of its (db, rp) has
\* Counter 0 and a nil Buffer; the batch handed to the pool shows exactly the
\* bytes the CacheBuffer held before the flush, until the task has compressed
\* them, whatever WriteBuffer does for that (db, rp) meanwhile; no CacheBuffer
\* points to the array of a batch.
C11_FlushDetaches ==
    /\ wk.pc = "submit" =>
          /\ buffers[wk.task.key].Counter = 0
          /\ buffers[wk.task.key].Buffer = NilBuffer
          /\ wk.task.was # <<>>
          /\ Bytes(heap, wk.task.p) = wk.task.was
    /\ \A t \in BagToSet(tasks) :
          /\ t.pc = "new" => Bytes(heap, t.p) = t.was
          /\ t.pc = "posted" => t.z = Compress(t.was)
          /\ \A key \in BufKeys : buffers[key].Buffer # t.p.ref

\* A batch "a\n" waits in the pool while WriteBuffer has put "b\n" into the
\* CacheBuffer of the same (db, rp).
C11_Witness ==
    \E t \in BagToSet(tasks) :
        /\ t.pc = "new"
        /\ t.was = <<97, NL>>
        /\ buffers[t.key].Counter > 0
        /\ BufferBytes([buffers |-> buffers, heap |-> heap], t.key) = <<98, NL>>

\* C12: when the backend answered a rewrite with an error other than
\* ErrBadRequest and ErrNotFound, on a running engine, the step that ends the
\* attempt leaves the offset in .rec as it was and IsData true, and the next
\* Read returns the record of the failed attempt.
C12_TransientRetries ==
    [][ \A id \in RwIds :
          ( /\ rw[id].pc = "commit" /\ rw'[id].pc = "loop"
            /\ rw[id].err \notin Final
            /\ running /\ ~fb.closed ) =>
              /\ MetaOffset(fb') = MetaOffset(fb)
              /\ IsData(fb')
              /\ Read(fb').err = "nil"
              /\ ~Read(fb').isnil
              /\ Read(fb').p = rw[id].b ]_vars

\* C13: every record of the log is delivered once, in order, after which
\* IsData is false, .dat is empty, .rec holds 0 and no RewriteLoop is left,
\* for good.
C13_Drains ==
    <>[]( /\ ~IsData(fb)
          /\ fb.dat = <<>>
          /\ fb.rec = <<0>>
          /\ fb.consumer = 0 /\ fb.producer = 0
          /\ ~rewriting
          /\ \A id \in RwIds : rw[id].pc = "off"
          /\ tally.posted = PayloadsOf(pending) )

\* A log of MaxRecords records, with no offset committed, has been delivered
\* and cleaned up.
C13_Witness ==
    /\ Len(pending) = MaxRecords
    /\ tally.posted = PayloadsOf(pending)
    /\ fb.dat = <<>> /\ ~IsData(fb) /\ fb.rec = <<0>>
    /\ \A id \in RwIds : rw[id].pc = "off"

\* FlushSize calls of WritePoint were made, all for one (db, rp), nothing else
\* has happened to the engine, and WriteBuffer has called FlushBuffer for the
\* last of the points.
SizeFlush ==
    /\ wk.pc = "submit" /\ wk.cont = "recv"
    /\ tally.calls = FlushSize /\ tally.accepted = FlushSize
    /\ chWrite = <<>>
    /\ tasks = EmptyBag /\ tally.settled = 0 /\ fb.dat = <<>>

\* The one batch holds the FlushSize lines and every CacheBuffer is empty.
OneBatch ==
    /\ wg = 1
    /\ CountLines(Bytes(heap, wk.task.p)) = FlushSize
    /\ \A key \in BufKeys : buffers[key].Counter = 0 /\ buffers[key].Buffer = NilBuffer

C15_ShutdownOrder ==
    wk.pc = "done" =>
        /\ wk.exit \in {"closed", "timer"}
        /\ chClosed => chWrite = <<>>
        /\ \A key \in BufKeys : buffers[key].Counter = 0
        /\ wg = 0 /\ tasks = EmptyBag
        /\ shut /\ fb.closed

\* C16: at most one RewriteLoop exists and rewriting is true while it does; a
\* RewriteLoop starts only when rewriting is false and the spill log has data,
\* and rewriting is true when it starts.
C16_OneRewriteLoop ==
    /\ [](/\ Cardinality({id \in RwIds : rw[id].pc # "off"}) <= 1
          /\ (\E id \in RwIds : rw[id].pc # "off") => rewriting)
    /\ [][ \A id \in RwIds :
             (rw[id].pc = "off" /\ rw'[id].pc # "off") =>
                 ~rewriting /\ IsData(fb) /\ rewriting' ]_vars

\* The worker is at its select, where the ticker may fire, while a RewriteLoop
\* holds a record and the spill log has data.
C16_Witness ==
    /\ wk.pc = "select"
    /\ rewriting /\ IsData(fb)
    /\ \E id \in RwIds : rw[id].pc = "send"

\* C17: when no RewriteLoop exists, rewriting is false.
C17_FlagClearedOnExit ==
    (\A id \in RwIds : rw[id].pc = "off") => ~rewriting

\* C19: when Rewrite reads a record that does not split into three parts, the
\* record is committed: the step leaves the spill log as UpdateMeta leaves it
\* after the Read.
C19_MalformedCommitted ==
    [][ \A id \in RwIds :
          ( /\ rw[id].pc = "loop" /\ rw'[id].pc = "loop"
            /\ IsData(fb) /\ running /\ active
            /\ fb' # fb /\ fb'.dat = fb.dat
            /\ Read(fb).err = "nil" /\ ~Read(fb).isnil
            /\ Len(SplitN(Read(fb).p)) < 3 ) =>
              fb' = UpdateMeta(Read(fb).fb).fb ]_vars

\* C18: the step that ends a flush task leaves the spill log untouched when
\* the backend was active and answered nil, ErrBadRequest or ErrNotFound; when
\* the backend was not active or answered another error, it appends one record
\* to .dat, which splits into the task's db, its rp and its compressed batch.
C18_TaskOutcome ==
    [][ \A t \in BagToSet(tasks) :
          (t.pc = "posted" /\ tasks' = tasks (-) SetToBag({t})) =>
              IF t.err \in Final
              THEN fb' = fb
              ELSE /\ t.err \in {"NotActive", "ErrUnknown"}
                   /\ Len(fb'.dat) > Len(fb.dat)
                   /\ SubSeq(fb'.dat, 1, Len(fb.dat)) = fb.dat
                   /\ LET b == SubSeq(fb'.dat, Len(fb.dat) + 2, Len(fb'.dat))
                      IN  /\ fb'.dat[Len(fb.dat) + 1] = Len(b)
                          /\ Len(SplitN(b)) = 3
                          /\ QueryUnescape(SplitN(b)[1]) = t.key[1]
                          /\ QueryUnescape(SplitN(b)[2]) = t.key[2]
                          /\ SplitN(b)[3] = Compress(t.was) ]_vars

\* The batch "a\n" of the database "d " was spilled after the backend answered
\* with another error, and a batch has been delivered or dropped.
C18_Witness ==
    /\ Decode(fb.dat) = <<Join(<<100, SP>>, <<115>>, Compress(<<97, NL>>))>>
    /\ tally.settled = MaxPoints
    /\ active

\* C20: no Read is under way while a Write holds the lock, and Read never
\* takes the length of a record whose body is not written yet.
C20_ReadExcludesWrite ==
    /\ ~(fr.pc \in {"length", "body"} /\ mu = "w")
    /\ ~fr.torn

\* C21: in every state the worker leaves, the Counter of each CacheBuffer is the
\* number of WriteBuffer calls for its (db, rp) since the CacheBuffer was made
\* or last flushed, which is the number of lines its Buffer holds, as each call
\* puts one line there; and the Counter is 0 exactly when the Buffer is nil or
\* holds no byte.
C21_CounterCountsWrites ==
    \A key \in BufKeys :
        LET bytes == BufferBytes([buffers |-> buffers, heap |-> heap], key)
        IN  /\ buffers[key].Counter = CountLines(bytes)
            /\ buffers[key].Counter = 0 <=> bytes = <<>>
            /\ ~buffers[key].made => buffers[key].Counter = 0

\* Two points went to one (db, rp): the first was flushed and its batch has
\* reached its outcome, the second is counted in the CacheBuffer since then.
C21_Witness ==
    \E key \in BufKeys :
        /\ tally.accepted = 2 /\ tally.settled = 1 /\ chWrite = <<>>
        /\ buffers[key].Counter = 1
        /\ \A other \in BufKeys \ {key} : ~buffers[other].made

\* C22: every CacheBuffer holds fewer than flushSize points in every state the
\* worker leaves; the WriteBuffer call that brings the Counter of a (db, rp) to
\* flushSize flushes it in the same call, as one batch of flushSize lines, and
\* no WriteBuffer call touches the CacheBuffer of another (db, rp).
C22_BelowFlushSize ==
    /\ [](\A key \in BufKeys : buffers[key].Counter < FlushSize)
    /\ [][ (wk.pc = "select" /\ chWrite # <<>> /\ chWrite' = Tail(chWrite)) =>
              LET key == <<Head(chWrite).Db, Head(chWrite).Rp>>
              IN  /\ \A other \in BufKeys \ {key} : buffers'[other] = buffers[other]
                  /\ IF buffers[key].Counter + 1 >= FlushSize
                     THEN /\ buffers'[key].Counter = 0
                          /\ buffers'[key].Buffer = NilBuffer
                          /\ wk'.pc = "submit" /\ wk'.task.key = key
                          /\ CountLines(Bytes(heap', wk'.task.p)) = FlushSize
                     ELSE /\ buffers'[key].Counter = buffers[key].Counter + 1
                          /\ wk'.pc = "for" ]_vars

\* A (db, rp) has just been flushed at flushSize while the CacheBuffer of
\* another (db, rp) holds a point.
C22_Witness ==
    /\ wk.pc = "submit" /\ wk.cont = "recv"
    /\ CountLines(Bytes(heap, wk.task.p)) = FlushSize
    /\ \E other \in BufKeys \ {wk.task.key} : buffers[other].Counter > 0

\* Some CacheBuffer holds a point.
Buffered == \E key \in BufKeys : buffers[key].Counter > 0

\* The worker is between two steps: not inside Flush and not inside WriteBuffer.
BetweenSteps == wk.pc \notin {"flush", "submit"}

\* The Flush the timer started has gone through the CacheBuffers.
TimerFlushed == wk.pc = "flush" /\ wk.cont = "timer" /\ wk.todo = {}

\* WriteBuffer, lines 149-155: between worker steps the timer is armed
\* whenever a CacheBuffer holds a point.
TimerArmedWhileBuffered == (BetweenSteps /\ Buffered) => chTimer = "armed"

\* Flush, lines 211-219: the Flush of a fired timer leaves every CacheBuffer
\* empty and the timer nil.
TimerFlushEmpties == TimerFlushed => ~Buffered /\ chTimer = "nil"

\* C23: between worker steps the timer is armed whenever a CacheBuffer holds a
\* point; the Flush of a fired timer leaves every CacheBuffer empty and the
\* timer nil; hence a buffered point never waits for a flush nothing will
\* trigger: while a point is buffered the worker has not returned and can
\* still take the timer.
C23_BufferedHasTrigger ==
    /\ TimerArmedWhileBuffered
    /\ TimerFlushEmpties
    /\ (BetweenSteps /\ Buffered) => wk.pc # "done"

\* C24: a step that truncates .dat removes only records that were read and
\* sent to the backend with the answer nil, ErrBadRequest or ErrNotFound.
C24_CleanUpKeepsUnprocessed ==
    [][ (fb.dat # <<>> /\ fb'.dat = <<>>) =>
            \A off \in RecordOffsets(fb.dat) : off \in tally.sent ]_vars

====
